---- MODULE Spec2Model ----
(***************************************************************************)
(* The monetary core of the banking application of routes.py: the transfer *)
(* preview (transfer), the transfer execution (execute_transfer), the      *)
(* administrative deposit (admin_deposit) and the account status changes   *)
(* (activate_user, deactivate_user), run by concurrent request handlers    *)
(* over one database.                                                      *)
(*                                                                         *)
(* A request handler works on the rows its ORM session has loaded: it      *)
(* reads the rows it needs with plain queries (no row lock), computes the  *)
(* new balances from the values it read, and db.session.commit() writes    *)
(* the computed values and the new Transaction row in one database         *)
(* transaction.  A handler is therefore two steps, the load and the commit,*)
(* and the commits of other handlers may fall between them.                *)
(*                                                                         *)
(* Further systems over the same variables cover a storage fault at the    *)
(* commit (SpecFault), the transaction listing of a user (SpecHistory),    *)
(* the handlers that manage accounts, roles, PINs and passwords (SpecSite, *)
(* SpecRoles), two transfers in opposite directions (SpecOpposite), the    *)
(* edits of a profile (SpecEdit), an account nobody approves               *)
(* (SpecUnapproved) and the administrators' rights over the accounts       *)
(* (SpecManage).                                                           *)
(*                                                                         *)
(* Amounts are whole currency units: the code computes on floats, which    *)
(* are exact on whole numbers of this size.                                *)
(***************************************************************************)
EXTENDS Integers, Sequences, FiniteSets

\* ------------------------------------------------------------------ bounds

\* the number of Transaction rows the model lets the log grow to
MaxLog == 2

\* the number of Transaction rows of the tables the history is asked of
MaxRows == 3

\* ------------------------------------------------------------------ domain

\* user ids: 1 and 2 are regular users, 3 is an administrator
Users == {1, 2, 3}

\* None: a lookup that finds no row, and the null sender of a deposit
None == 0

\* the users who ask for transfers
Senders == {1, 2}

\* what a transfer form can name as recipient: an account, or one that does
\* not exist
Keys == {None, 1, 2}

\* the amounts a transfer form can carry
Amounts == {-10, 0, 50}

\* the users who ask for deposits: a regular user and the administrator
Actors == {1, 3}

\* what a deposit form can name as target
Targets == {None, 1, 2}

\* the amounts a deposit form can carry
DepositAmounts == {-10, 0, 10}

\* the accounts whose activation and deactivation are asked for
Managed == {2}

\* the concurrent request handlers (worker threads)
Procs == {1, 2}

\* the balances the accounts start with
InitBalance == [u \in Users |-> IF u = 1 THEN 60 ELSE 0]

VARIABLES
    balance,     \* User.balance, the committed value of each row
    status,      \* User.status: "pending", "active" or "deactivated"
    is_admin,    \* User.is_admin
    is_manager,  \* User.is_manager
    log,         \* the Transaction table, in insertion order
    pc,          \* where each request handler is
    req,         \* the request each handler is serving, and what it read
    registered,  \* the ids of the User rows that exist
    email,       \* User.email
    pin_hash,    \* User.pin_hash: the PIN it stands for, or None
    password_hash, \* User.password_hash: the password it stands for
    region_code, \* User.region_code: the region of the address, or None
    session      \* the session of one browser: its user and pin_verified

\* the rows that exist, what identifies their owners, and the session
identity ==
    <<registered, email, pin_hash, password_hash, region_code, session>>

vars == <<balance, status, is_admin, is_manager, log, pc, req, identity>>

\* a handler that serves no request
NoReq ==
    [op |-> "none", user |-> None, rcpt |-> None, amount |-> 0,
     sBal |-> 0, rBal |-> 0, previewed |-> FALSE, result |-> "none"]

\* every account exists, none has a PIN and nobody is logged in
InitIdentity ==
    /\ registered = Users
    /\ email = [u \in Users |-> "a"]
    /\ pin_hash = [u \in Users |-> None]
    /\ password_hash = [u \in Users |-> 1]
    /\ region_code = [u \in Users |-> None]
    /\ session = [user_id |-> None, pin_verified |-> FALSE]

Init ==
    /\ InitIdentity
    /\ balance = InitBalance
    /\ status = [u \in Users |-> IF u = 2 THEN "pending" ELSE "active"]
    /\ is_admin = [u \in Users |-> u = 3]
    /\ is_manager = [u \in Users |-> FALSE]
    /\ log = << >>
    /\ pc = [p \in Procs |-> "idle"]
    /\ req = [p \in Procs |-> NoReq]

\* ------------------------------------------------------------------ helpers

\* the test of the status alone
EligibleActiveOnly(u) ==
    status[u] = "active"

\* status == 'active' or is_admin or is_manager: the test the handlers
\* make on current_user, on the recipient and on the deposit's target
Eligible(u) ==
    status[u] = "active" \/ is_admin[u] \/ is_manager[u]

\* User.query.filter_by(...).first(): the row the form names, or None
FindUser(key) ==
    IF key \in registered THEN key ELSE None

\* User.can_manage_user: an administrator manages the regular users, a
\* manager everybody but the managers
can_manage_user(actor, u) ==
    IF is_manager[actor]
    THEN ~is_manager[u]
    ELSE is_admin[actor] /\ ~is_admin[u] /\ ~is_manager[u]

\* transfer_money without the test of the balance
transfer_money_unchecked(sender, recipient, amount, sBal) ==
    /\ sender # recipient
    /\ amount > 0

\* transfer_money without the test for a transfer to oneself
transfer_money_to_self(sender, recipient, amount, sBal) ==
    /\ amount > 0
    /\ sBal >= amount

\* User.transfer_money(recipient, amount) on the rows the session holds:
\* whether the transfer is made
transfer_money(sender, recipient, amount, sBal) ==
    /\ sender # recipient
    /\ amount > 0
    /\ sBal >= amount

\* User.deposit(amount, admin): whether the deposit is made
deposit(amount) ==
    amount > 0

\* the Transaction row of a transfer
TransferRecord(sender, recipient, amount) ==
    [kind |-> "transfer", sender |-> sender, receiver |-> recipient,
     amount |-> amount]

\* a deposit recorded with the administrator as its sender
DepositRecordFromAdmin(admin, target, amount) ==
    [kind |-> "deposit", sender |-> admin, receiver |-> target,
     amount |-> amount]

\* the Transaction row of a deposit
DepositRecord(admin, target, amount) ==
    [kind |-> "deposit", sender |-> None, receiver |-> target,
     amount |-> amount]

\* the request as answered: the session and the rows it held are gone
Answered(r, outcome) ==
    [r EXCEPT !.sBal = 0, !.rBal = 0, !.result = outcome]

\* the handler ends with an outcome and changes nothing in the database
Finish(p, r, outcome) ==
    /\ pc' = [pc EXCEPT ![p] = "done"]
    /\ req' = [req EXCEPT ![p] = Answered(r, outcome)]
    /\ UNCHANGED <<balance, status, is_admin, is_manager, identity, log>>

\* ------------------------------------------------------------------ transfer

\* transfer() without the test of the balance
TransferCheckNoFunds(u, recipient, a) ==
    IF ~Eligible(u) THEN "InactiveAccount"
    ELSE IF recipient # None /\ recipient = u THEN "SelfTransfer"
    ELSE IF recipient = None THEN "ServerError"
    ELSE IF ~Eligible(recipient) THEN "InactiveAccount"
    ELSE "confirm"

\* transfer() asking for more than the amount on the account
TransferCheckStrict(u, recipient, a) ==
    IF ~Eligible(u) THEN "InactiveAccount"
    ELSE IF recipient # None /\ recipient = u THEN "SelfTransfer"
    ELSE IF balance[u] <= a THEN "InsufficientFunds"
    ELSE IF recipient = None THEN "ServerError"
    ELSE IF ~Eligible(recipient) THEN "InactiveAccount"
    ELSE "confirm"

\* the checks of transfer() on a valid form, in the order the handler makes
\* them; recipient.status of a recipient that was not found raises, which
\* the application answers as a server error
TransferCheck(u, recipient, a) ==
    IF ~Eligible(u) THEN "InactiveAccount"
    ELSE IF recipient # None /\ recipient = u THEN "SelfTransfer"
    ELSE IF balance[u] < a THEN "InsufficientFunds"
    ELSE IF recipient = None THEN "ServerError"
    ELSE IF ~Eligible(recipient) THEN "InactiveAccount"
    ELSE "confirm"

\* transfer(): the preview step, which checks and shows the confirm page
transfer(p, u, key, a) ==
    /\ pc[p] = "idle"
    /\ LET recipient == FindUser(key)
           r == [NoReq EXCEPT !.op = "transfer", !.user = u,
                              !.rcpt = recipient, !.amount = a]
           outcome == TransferCheck(u, recipient, a)
       IN  /\ pc' = [pc EXCEPT ![p] = IF outcome = "confirm" THEN "confirm"
                                                             ELSE "done"]
           /\ req' = [req EXCEPT ![p] = Answered(r, outcome)]
           /\ UNCHANGED <<balance, status, is_admin, is_manager, identity, log>>

\* execute_transfer() trusting the preview for the recipient's status
ExecuteCheckTrusting(u, recipient) ==
    IF ~Eligible(u) THEN "InactiveAccount"
    ELSE IF recipient = None THEN "AccountNotFound"
    ELSE "load"

\* the checks of execute_transfer() before it calls transfer_money
ExecuteCheck(u, recipient) ==
    IF ~Eligible(u) THEN "InactiveAccount"
    ELSE IF recipient = None THEN "AccountNotFound"
    ELSE IF ~Eligible(recipient) THEN "InactiveAccount"
    ELSE "load"

\* execute_transfer(), up to the call of transfer_money: the handler loads
\* current_user and the recipient and checks that both may transact.  It is
\* posted from the confirm page, or directly
execute_transfer_load(p, u, key, a) ==
    /\ \/ pc[p] = "idle"
       \/ /\ pc[p] = "confirm"
          /\ req[p].user = u /\ req[p].rcpt = key /\ req[p].amount = a
    /\ LET recipient == FindUser(key)
           r == [op |-> "execute_transfer", user |-> u, rcpt |-> recipient,
                 amount |-> a, sBal |-> balance[u],
                 rBal |-> IF recipient = None THEN 0 ELSE balance[recipient],
                 previewed |-> (pc[p] = "confirm"), result |-> "none"]
           outcome == ExecuteCheck(u, recipient)
       IN  IF outcome = "load"
           THEN /\ pc' = [pc EXCEPT ![p] = "loaded"]
                /\ req' = [req EXCEPT ![p] = r]
                /\ UNCHANGED <<balance, status, is_admin, is_manager,
                               identity, log>>
           ELSE Finish(p, r, outcome)

\* the balances a committed transfer writes: the values computed from the
\* rows the session loaded
TransferWrite(r) ==
    [balance EXCEPT ![r.user] = r.sBal - r.amount,
                    ![r.rcpt] = r.rBal + r.amount]

\* execute_transfer() answering success without db.session.commit(): the
\* changes are dropped with the session
execute_transfer_uncommitted(p) ==
    /\ pc[p] = "loaded"
    /\ req[p].op = "execute_transfer"
    /\ LET r == req[p]
       IN  IF transfer_money(r.user, r.rcpt, r.amount, r.sBal)
           THEN Finish(p, r, "ok")
           ELSE Finish(p, r, "InsufficientFunds")

\* execute_transfer() holding its rows from the load to the commit, and
\* waiting at the commit for the rows another handler holds
execute_transfer_commit_waiting(p) ==
    /\ pc[p] = "loaded"
    /\ req[p].op = "execute_transfer"
    /\ \A q \in Procs \ {p} :
           pc[q] = "loaded"
           => {req[q].user, req[q].rcpt} \cap {req[p].user, req[p].rcpt} = {}
    /\ LET r == req[p]
       IN  IF transfer_money(r.user, r.rcpt, r.amount, r.sBal)
           THEN /\ balance' = TransferWrite(r)
                /\ log' = Append(log, TransferRecord(r.user, r.rcpt, r.amount))
                /\ pc' = [pc EXCEPT ![p] = "done"]
                /\ req' = [req EXCEPT ![p] = Answered(r, "ok")]
                /\ UNCHANGED <<status, is_admin, is_manager, identity>>
           ELSE Finish(p, r, "InsufficientFunds")

\* execute_transfer(), from the call of transfer_money to the end:
\* transfer_money changes the loaded rows and adds the Transaction, and
\* db.session.commit() writes them
execute_transfer_commit(p) ==
    /\ pc[p] = "loaded"
    /\ req[p].op = "execute_transfer"
    /\ LET r == req[p]
       IN  IF transfer_money(r.user, r.rcpt, r.amount, r.sBal)
           THEN /\ balance' = TransferWrite(r)
                /\ log' = Append(log, TransferRecord(r.user, r.rcpt, r.amount))
                /\ pc' = [pc EXCEPT ![p] = "done"]
                /\ req' = [req EXCEPT ![p] = Answered(r, "ok")]
                /\ UNCHANGED <<status, is_admin, is_manager, identity>>
           ELSE Finish(p, r, "InsufficientFunds")

\* ------------------------------------------------------------------ deposit

\* admin_deposit() without the test of the target's status
DepositCheckAnyStatus(actor, user) ==
    IF ~is_admin[actor] THEN "Forbidden"
    ELSE IF user = None THEN "AccountNotFound"
    ELSE "load"

\* the checks of admin_deposit() before it calls deposit; admin_required
\* turns away a user who is no administrator
DepositCheck(actor, user) ==
    IF ~is_admin[actor] THEN "Forbidden"
    ELSE IF user = None THEN "AccountNotFound"
    ELSE IF ~Eligible(user) THEN "InactiveAccount"
    ELSE "load"

\* admin_deposit(), up to the call of deposit: the handler loads the target
\* and checks that it may receive
admin_deposit_load(p, actor, key, a) ==
    /\ pc[p] = "idle"
    /\ LET user == FindUser(key)
           r == [op |-> "admin_deposit", user |-> actor, rcpt |-> user,
                 amount |-> a, sBal |-> 0,
                 rBal |-> IF user = None THEN 0 ELSE balance[user],
                 previewed |-> FALSE, result |-> "none"]
           outcome == DepositCheck(actor, user)
       IN  IF outcome = "load"
           THEN /\ pc' = [pc EXCEPT ![p] = "loaded"]
                /\ req' = [req EXCEPT ![p] = r]
                /\ UNCHANGED <<balance, status, is_admin, is_manager,
                               identity, log>>
           ELSE Finish(p, r, outcome)

\* the balances a committed deposit writes
DepositWrite(r) ==
    [balance EXCEPT ![r.rcpt] = r.rBal + r.amount]

\* admin_deposit() committing whatever deposit answers
admin_deposit_commit_unconditional(p) ==
    /\ pc[p] = "loaded"
    /\ req[p].op = "admin_deposit"
    /\ LET r == req[p]
       IN  /\ balance' = DepositWrite(r)
           /\ log' = Append(log, DepositRecord(r.user, r.rcpt, r.amount))
           /\ pc' = [pc EXCEPT ![p] = "done"]
           /\ req' = [req EXCEPT ![p] = Answered(r, "ok")]
           /\ UNCHANGED <<status, is_admin, is_manager, identity>>

\* admin_deposit(), from the call of deposit to the end
admin_deposit_commit(p) ==
    /\ pc[p] = "loaded"
    /\ req[p].op = "admin_deposit"
    /\ LET r == req[p]
       IN  IF deposit(r.amount)
           THEN /\ balance' = DepositWrite(r)
                /\ log' = Append(log, DepositRecord(r.user, r.rcpt, r.amount))
                /\ pc' = [pc EXCEPT ![p] = "done"]
                /\ req' = [req EXCEPT ![p] = Answered(r, "ok")]
                /\ UNCHANGED <<status, is_admin, is_manager, identity>>
           ELSE Finish(p, r, "DepositFailed")

\* ------------------------------------------------------------------ faults

\* internal_error(): db.session.rollback() drops what the session changed
\* and added, and the rows of the database stay as they were committed
rollback ==
    UNCHANGED <<balance, status, is_admin, is_manager, identity, log>>

\* a failed unit of work of execute_transfer that keeps the balances
\* transfer_money had set and loses the record
execute_transfer_fault_partial(p) ==
    /\ pc[p] = "loaded"
    /\ req[p].op = "execute_transfer"
    /\ LET r == req[p]
       IN  /\ transfer_money(r.user, r.rcpt, r.amount, r.sBal)
           /\ balance' = TransferWrite(r)
           /\ pc' = [pc EXCEPT ![p] = "done"]
           /\ req' = [req EXCEPT ![p] = Answered(r, "ServerError")]
           /\ UNCHANGED <<status, is_admin, is_manager, identity, log>>

\* execute_transfer() when the Transaction row cannot be written:
\* transfer_money has changed the loaded rows and added the Transaction to
\* the session, db.session.commit() raises, and the application answers
\* through internal_error, which rolls the session back
execute_transfer_fault(p) ==
    /\ pc[p] = "loaded"
    /\ req[p].op = "execute_transfer"
    /\ LET r == req[p]
       IN  /\ transfer_money(r.user, r.rcpt, r.amount, r.sBal)
           /\ pc' = [pc EXCEPT ![p] = "done"]
           /\ req' = [req EXCEPT ![p] = Answered(r, "ServerError")]
           /\ rollback

\* admin_deposit() when the Transaction row cannot be written
admin_deposit_fault(p) ==
    /\ pc[p] = "loaded"
    /\ req[p].op = "admin_deposit"
    /\ LET r == req[p]
       IN  /\ deposit(r.amount)
           /\ pc' = [pc EXCEPT ![p] = "done"]
           /\ req' = [req EXCEPT ![p] = Answered(r, "ServerError")]
           /\ rollback

\* ------------------------------------------------------------------ status

\* activate_user(user_id)
activate_user(actor, u) ==
    /\ is_admin[actor]
    /\ u \in registered
    /\ can_manage_user(actor, u)
    /\ status' = [status EXCEPT ![u] = "active"]
    /\ UNCHANGED <<balance, is_admin, is_manager, identity, log, pc, req>>

\* deactivate_user without the test of can_manage_user
deactivate_user_unmanaged(actor, u) ==
    /\ is_admin[actor]
    /\ u \in registered
    /\ status' = [status EXCEPT ![u] = "deactivated"]
    /\ UNCHANGED <<balance, is_admin, is_manager, identity, log, pc, req>>

\* deactivate_user(user_id)
deactivate_user(actor, u) ==
    /\ is_admin[actor]
    /\ u \in registered
    /\ can_manage_user(actor, u)
    /\ status' = [status EXCEPT ![u] = "deactivated"]
    /\ UNCHANGED <<balance, is_admin, is_manager, identity, log, pc, req>>

\* the response is sent (or the confirm page is left) and the handler is free
Return(p) ==
    /\ pc[p] \in {"confirm", "done"}
    /\ pc' = [pc EXCEPT ![p] = "idle"]
    /\ req' = [req EXCEPT ![p] = NoReq]
    /\ UNCHANGED <<balance, status, is_admin, is_manager, identity, log>>

\* ------------------------------------------------------------------ system

\* a response is returned at once: an answered handler leaves before any
\* other step is taken
NoneDone ==
    \A p \in Procs : pc[p] # "done"

\* the steps of the handlers, each taken when no answer is waiting to leave;
\* a commit is taken while the log has room for its record
Preview(p, u, key, a) == NoneDone /\ transfer(p, u, key, a)

ExecuteLoad(p, u, key, a) == NoneDone /\ execute_transfer_load(p, u, key, a)

ExecuteCommit(p) ==
    NoneDone /\ execute_transfer_commit(p) /\ Len(log') <= MaxLog

DepositLoad(p, actor, key, a) ==
    NoneDone /\ admin_deposit_load(p, actor, key, a)

DepositCommit(p) ==
    NoneDone /\ admin_deposit_commit(p) /\ Len(log') <= MaxLog

Activate(actor, u) == NoneDone /\ activate_user(actor, u)

Deactivate(actor, u) == NoneDone /\ deactivate_user(actor, u)

Next ==
    \/ \E p \in Procs, u \in Senders, key \in Keys, a \in Amounts :
           Preview(p, u, key, a)
    \/ \E p \in Procs, u \in Senders, key \in Keys, a \in Amounts :
           ExecuteLoad(p, u, key, a)
    \/ \E p \in Procs : ExecuteCommit(p)
    \/ \E p \in Procs, actor \in Actors, key \in Targets,
             a \in DepositAmounts :
           DepositLoad(p, actor, key, a)
    \/ \E p \in Procs : DepositCommit(p)
    \/ \E actor \in Actors, u \in Managed : Activate(actor, u)
    \/ \E actor \in Actors, u \in Managed : Deactivate(actor, u)
    \/ \E p \in Procs : Return(p)

Spec == Init /\ [][Next]_vars

\* ------------------------------------------------------------------ the race

\* the accounts the two racing transfers name as recipient
RaceKeys == {2, 3}

\* the sender holds 60 and every account is active
InitRace ==
    /\ InitIdentity
    /\ balance = InitBalance
    /\ status = [u \in Users |-> "active"]
    /\ is_admin = [u \in Users |-> u = 3]
    /\ is_manager = [u \in Users |-> FALSE]
    /\ log = << >>
    /\ pc = [p \in Procs |-> "idle"]
    /\ req = [p \in Procs |-> NoReq]

\* each handler serves one transfer of 50 from user 1, through the confirm
\* page or directly, and keeps its answer
NextRace ==
    \/ \E p \in Procs, key \in RaceKeys : transfer(p, 1, key, 50)
    \/ \E p \in Procs, key \in RaceKeys : execute_transfer_load(p, 1, key, 50)
    \/ \E p \in Procs : execute_transfer_commit(p)

SpecRace == InitRace /\ [][NextRace]_vars

\* ------------------------------------------------------------------ faults

ExecuteFault(p) == NoneDone /\ execute_transfer_fault(p)

DepositFault(p) == NoneDone /\ admin_deposit_fault(p)

\* the accounts the deposits of this system name
FaultTargets == {1, 2}

\* transfers of 50 from user 1 and deposits of 10 by the administrator,
\* each of which either commits or fails on writing its record
NextFault ==
    \/ \E p \in Procs, key \in RaceKeys : ExecuteLoad(p, 1, key, 50)
    \/ \E p \in Procs : ExecuteCommit(p)
    \/ \E p \in Procs : ExecuteFault(p)
    \/ \E p \in Procs, key \in FaultTargets : DepositLoad(p, 3, key, 10)
    \/ \E p \in Procs : DepositCommit(p)
    \/ \E p \in Procs : DepositFault(p)
    \/ \E p \in Procs : Return(p)

SpecFault == InitRace /\ [][NextFault]_vars

\* ------------------------------------------------------------------ history

\* the values of Transaction.timestamp: two rows can carry the same one
Stamps == {1, 2}

\* the users whose history is asked for
HistoryKeys == {None, 1, 2}

\* the rows the tables are made of: transfers between users 1 and 2,
\* deposits to them and an edit of user 1 by the administrator, each with
\* its timestamp.  The id of a row is its place in the table
HistoryRows ==
    { [kind |-> "transfer", sender |-> 1, receiver |-> 2, amount |-> 50,
       timestamp |-> t] : t \in Stamps }
    \cup { [kind |-> "transfer", sender |-> 2, receiver |-> 1, amount |-> 50,
            timestamp |-> t] : t \in Stamps }
    \cup { [kind |-> "deposit", sender |-> None, receiver |-> u,
            amount |-> 10, timestamp |-> t] : u \in {1, 2}, t \in Stamps }
    \cup { [kind |-> "user_edit", sender |-> 3, receiver |-> 1,
            amount |-> None, timestamp |-> t] : t \in Stamps }

\* a database whose Transaction table is any table of these rows
InitHistory ==
    /\ InitIdentity
    /\ balance = InitBalance
    /\ status = [u \in Users |-> "active"]
    /\ is_admin = [u \in Users |-> u = 3]
    /\ is_manager = [u \in Users |-> FALSE]
    /\ log \in UNION { [1..n -> HistoryRows] : n \in 0..MaxRows }
    /\ pc = [p \in Procs |-> "idle"]
    /\ req = [p \in Procs |-> NoReq]

\* (Transaction.sender_id == user.id) | (Transaction.receiver_id == user.id)
Involves(t, u) ==
    t.sender = u \/ t.receiver = u

\* the ids of the rows the filter keeps
Selected(u) ==
    {i \in 1..Len(log) : Involves(log[i], u)}

\* a listing of rows, by their ids, oldest first
OrderedAsc(s) ==
    \A j, k \in 1..Len(s) :
        j < k => log[s[j]].timestamp <= log[s[k]].timestamp

\* order_by(Transaction.timestamp.desc()): no row comes before a newer one
OrderedDesc(s) ==
    \A j, k \in 1..Len(s) :
        j < k => log[s[j]].timestamp >= log[s[k]].timestamp

\* the listings .all() can return: the kept rows, each once, in an order
\* the ORDER BY allows (rows of one timestamp come in any order)
Listings(u) ==
    {s \in [1..Cardinality(Selected(u)) -> Selected(u)] :
        /\ \A j, k \in 1..Len(s) : j # k => s[j] # s[k]
        /\ OrderedDesc(s)}

\* admin_user_transactions(user_id): the history of a user, for an
\* administrator
admin_user_transactions(p, actor, key) ==
    /\ pc[p] = "idle"
    /\ LET user == FindUser(key)
           r == [NoReq EXCEPT !.op = "admin_user_transactions",
                              !.user = actor, !.rcpt = user]
       IN  IF ~is_admin[actor] THEN Finish(p, r, "Forbidden")
           ELSE IF user = None THEN Finish(p, r, "AccountNotFound")
           ELSE \E transactions \in Listings(user) :
                    /\ pc' = [pc EXCEPT ![p] = "done"]
                    /\ req' = [req EXCEPT ![p] =
                           [op |-> r.op, user |-> actor, rcpt |-> user,
                            amount |-> 0, sBal |-> 0, rBal |-> 0,
                            previewed |-> FALSE, result |-> "ok",
                            transactions |-> transactions]]
                    /\ UNCHANGED <<balance, status, is_admin, is_manager,
                                   identity, log>>

History(p, actor, key) == NoneDone /\ admin_user_transactions(p, actor, key)

NextHistory ==
    \/ \E p \in Procs, actor \in Actors, key \in HistoryKeys :
           History(p, actor, key)
    \/ \E p \in Procs : Return(p)

SpecHistory == InitHistory /\ [][NextHistory]_vars

\* ------------------------------------------------------------------ accounts

\* the passwords and the PINs the forms can carry
Passwords == {1, 2}

Pins == {1, 2}

\* the e-mail addresses the edit form can carry
Emails == {"a", "b"}

\* the statuses the edit form can carry
Statuses == {"pending", "active", "deactivated"}

\* register(): a visitor who is not logged in registers an account, which
\* awaits approval
register(u, pw) ==
    /\ session.user_id = None
    /\ u \notin registered
    /\ registered' = registered \cup {u}
    /\ status' = [status EXCEPT ![u] = "pending"]
    /\ password_hash' = [password_hash EXCEPT ![u] = pw]
    /\ UNCHANGED <<balance, is_admin, is_manager, log, pc, req, email,
                   pin_hash, session, region_code>>

\* create_account(): an administrator creates an account, active at once
create_account(actor, u, pw) ==
    /\ actor \in registered
    /\ is_admin[actor]
    /\ u \notin registered
    /\ registered' = registered \cup {u}
    /\ status' = [status EXCEPT ![u] = "active"]
    /\ password_hash' = [password_hash EXCEPT ![u] = pw]
    /\ UNCHANGED <<balance, is_admin, is_manager, log, pc, req, email,
                   pin_hash, session, region_code>>

\* create_admin(): a manager creates the account of an administrator
create_admin(actor, u, pw) ==
    /\ actor \in registered
    /\ is_manager[actor]
    /\ u \notin registered
    /\ registered' = registered \cup {u}
    /\ status' = [status EXCEPT ![u] = "active"]
    /\ is_admin' = [is_admin EXCEPT ![u] = TRUE]
    /\ password_hash' = [password_hash EXCEPT ![u] = pw]
    /\ UNCHANGED <<balance, is_manager, log, pc, req, email, pin_hash,
                   session, region_code>>

\* the Transaction row of an edit
EditRecord(admin, user) ==
    [kind |-> "user_edit", sender |-> admin, receiver |-> user,
     amount |-> None]

\* edit_user keeping, for each user, only the audit row of the last edit
edit_user_replacing(actor, u, em, st, rg) ==
    /\ actor \in registered
    /\ is_admin[actor]
    /\ u \in registered
    /\ can_manage_user(actor, u)
    /\ LET changes == \/ email[u] # em
                      \/ status[u] # st
                      \/ rg # None /\ rg # region_code[u]
           IsOther(t) == ~(t.kind = "user_edit" /\ t.receiver = u)
       IN  /\ email' = [email EXCEPT ![u] = em]
           /\ status' = [status EXCEPT ![u] = st]
           /\ region_code' = [region_code EXCEPT ![u] = rg]
           /\ log' = IF changes
                     THEN Append(SelectSeq(log, IsOther), EditRecord(actor, u))
                     ELSE log
    /\ UNCHANGED <<balance, is_admin, is_manager, pc, req, registered,
                   pin_hash, password_hash, session>>

\* edit_user with a form that carries the balance too, and writes it
edit_user_writing_balance(actor, u, em, st, rg) ==
    /\ actor \in registered
    /\ is_admin[actor]
    /\ u \in registered
    /\ can_manage_user(actor, u)
    /\ LET changes == \/ email[u] # em
                      \/ status[u] # st
                      \/ rg # None /\ rg # region_code[u]
       IN  /\ email' = [email EXCEPT ![u] = em]
           /\ status' = [status EXCEPT ![u] = st]
           /\ region_code' = [region_code EXCEPT ![u] = rg]
           /\ balance' = [balance EXCEPT ![u] = 0]
           /\ log' = IF changes THEN Append(log, EditRecord(actor, u))
                                ELSE log
    /\ UNCHANGED <<is_admin, is_manager, pc, req, registered, pin_hash,
                   password_hash, session>>

\* edit_user(user_id) with a valid form: the fields of the form are written
\* to the user, and an audit row is added if the handler's list of changes
\* is not empty.  The list names the email and the status when the form
\* differs from the row, and the region when the form carries one that
\* differs from the row's; a form without a region (rg = None) clears the
\* region of the row.  The other fields of the profile are compared like the
\* email, and the other fields of the address like the region
edit_user(actor, u, em, st, rg) ==
    /\ actor \in registered
    /\ is_admin[actor]
    /\ u \in registered
    /\ can_manage_user(actor, u)
    /\ LET changes == \/ email[u] # em
                      \/ status[u] # st
                      \/ rg # None /\ rg # region_code[u]
       IN  /\ email' = [email EXCEPT ![u] = em]
           /\ status' = [status EXCEPT ![u] = st]
           /\ region_code' = [region_code EXCEPT ![u] = rg]
           /\ log' = IF changes THEN Append(log, EditRecord(actor, u))
                                ELSE log
    /\ UNCHANGED <<balance, is_admin, is_manager, pc, req, registered,
                   pin_hash, password_hash, session>>

\* toggle_admin(user_id): a manager promotes a user, who becomes active, or
\* demotes an administrator; a manager's account is left alone
toggle_admin(actor, u) ==
    /\ actor \in registered
    /\ is_manager[actor]
    /\ u \in registered
    /\ ~is_manager[u]
    /\ is_admin' = [is_admin EXCEPT ![u] = ~is_admin[u]]
    /\ status' = IF ~is_admin[u] THEN [status EXCEPT ![u] = "active"]
                                 ELSE status
    /\ UNCHANGED <<balance, is_manager, log, pc, req, identity>>

\* login() with the right password: admitted are the active accounts and
\* those of administrators and managers.  secure_login_user is not part of
\* routes.py: it may keep the session's pin_verified or clear it
login(u, pw) ==
    /\ session.user_id = None
    /\ u \in registered
    /\ password_hash[u] = pw
    /\ Eligible(u)
    /\ \E kept \in {FALSE, session.pin_verified} :
           session' = [user_id |-> u, pin_verified |-> kept]
    /\ UNCHANGED <<balance, status, is_admin, is_manager, log, pc, req,
                   registered, email, pin_hash, password_hash, region_code>>

\* logout(): logout_user() takes the user out of the session
logout ==
    /\ session.user_id # None
    /\ session' = [session EXCEPT !.user_id = None]
    /\ UNCHANGED <<balance, status, is_admin, is_manager, log, pc, req,
                   registered, email, pin_hash, password_hash, region_code>>

\* create_pin(): the logged-in user, who has no PIN, sets one
create_pin(pin) ==
    /\ session.user_id # None
    /\ pin_hash[session.user_id] = None
    /\ pin_hash' = [pin_hash EXCEPT ![session.user_id] = pin]
    /\ session' = [session EXCEPT !.pin_verified = TRUE]
    /\ UNCHANGED <<balance, status, is_admin, is_manager, log, pc, req,
                   registered, email, password_hash, region_code>>

\* reset_pin(): the logged-in user gives the password and a new PIN
reset_pin(pw, pin) ==
    /\ session.user_id # None
    /\ password_hash[session.user_id] = pw
    /\ pin_hash' = [pin_hash EXCEPT ![session.user_id] = pin]
    /\ UNCHANGED <<balance, status, is_admin, is_manager, log, pc, req,
                   registered, email, password_hash, session, region_code>>

\* reset_password(token): a visitor with the token of an account sets its
\* password
reset_password(u, pw) ==
    /\ session.user_id = None
    /\ u \in registered
    /\ password_hash' = [password_hash EXCEPT ![u] = pw]
    /\ UNCHANGED <<balance, status, is_admin, is_manager, log, pc, req,
                   registered, email, pin_hash, session, region_code>>

\* ------------------------------------------------------------------ site

\* user 1 is a regular user, user 2 has no account yet, and user 3 is a
\* manager, who also passes for an administrator (admin_dashboard asks an
\* administrator whether it is a manager).  No handler creates a manager or
\* sets its status: the account comes with the database, active or not
InitSite ==
    /\ balance = InitBalance
    /\ \E st \in {"active", "deactivated"} :
           status = [u \in Users |-> IF u = 1 THEN "active"
                                    ELSE IF u = 2 THEN "pending" ELSE st]
    /\ is_admin = [u \in Users |-> u = 3]
    /\ is_manager = [u \in Users |-> u = 3]
    /\ log = << >>
    /\ pc = [p \in Procs |-> "idle"]
    /\ req = [p \in Procs |-> NoReq]
    /\ registered = {1, 3}
    /\ email = [u \in Users |-> "a"]
    /\ pin_hash = [u \in Users |-> None]
    /\ password_hash = [u \in Users |-> 1]
    /\ region_code = [u \in Users |-> None]
    /\ session = [user_id |-> None, pin_verified |-> FALSE]

\* the handler that serves the transfers and deposits of this system
SiteProcs == {1}

\* the account that is created, promoted and demoted
NewUsers == {2}

\* the administrators who act: the manager, and user 2 once promoted
SiteActors == {2, 3}

\* the users who log in
Visitors == {1}

EditUser(actor, u, em, st, rg) ==
    NoneDone /\ edit_user(actor, u, em, st, rg) /\ Len(log') <= MaxLog

\* the transfers of the users who have an account
SitePreview(p, u, key, a) == u \in registered /\ Preview(p, u, key, a)

SiteExecuteLoad(p, u, key, a) == u \in registered /\ ExecuteLoad(p, u, key, a)

NextSite ==
    \/ \E u \in NewUsers : register(u, 1)
    \/ \E u \in NewUsers : create_account(3, u, 1)
    \/ \E u \in NewUsers : create_admin(3, u, 1)
    \/ \E actor \in SiteActors, u \in Senders : Activate(actor, u)
    \/ \E actor \in SiteActors, u \in Senders : Deactivate(actor, u)
    \/ \E actor \in SiteActors, u \in NewUsers, em \in Emails,
             st \in Statuses :
           EditUser(actor, u, em, st, None)
    \/ \E u \in NewUsers : toggle_admin(3, u)
    \/ \E u \in Visitors, pw \in Passwords : login(u, pw)
    \/ logout
    \/ \E pin \in Pins : create_pin(pin)
    \/ \E pw \in Passwords : reset_pin(pw, 2)
    \/ \E u \in Visitors : reset_password(u, 2)
    \/ \E p \in SiteProcs, u \in Senders, key \in Senders :
           SitePreview(p, u, key, 50)
    \/ \E p \in SiteProcs, u \in Senders, key \in Senders :
           SiteExecuteLoad(p, u, key, 50)
    \/ \E p \in SiteProcs : ExecuteCommit(p)
    \/ \E p \in SiteProcs, key \in Senders : DepositLoad(p, 3, key, 10)
    \/ \E p \in SiteProcs : DepositCommit(p)
    \/ \E p \in SiteProcs : Return(p)

SpecSite == InitSite /\ [][NextSite]_vars

\* ------------------------------------------------------------------ roles

\* the changes of role and status of user 2, and the transfers and deposits
\* of all the accounts
NextRoles ==
    \/ \E u \in NewUsers : register(u, 1)
    \/ \E u \in NewUsers : create_admin(3, u, 1)
    \/ \E u \in NewUsers : toggle_admin(3, u)
    \/ \E u \in NewUsers : Activate(3, u)
    \/ \E u \in NewUsers : Deactivate(3, u)
    \/ \E u \in NewUsers, st \in Statuses : EditUser(3, u, "a", st, None)
    \/ \E p \in SiteProcs, u \in Users, key \in Users :
           SitePreview(p, u, key, 50)
    \/ \E p \in SiteProcs, u \in Users, key \in Users :
           SiteExecuteLoad(p, u, key, 50)
    \/ \E p \in SiteProcs : ExecuteCommit(p)
    \/ \E p \in SiteProcs, key \in Users : DepositLoad(p, 3, key, 10)
    \/ \E p \in SiteProcs : DepositCommit(p)
    \/ \E p \in SiteProcs : Return(p)

SpecRoles == InitSite /\ [][NextRoles]_vars

\* ------------------------------------------------------------------ opposite

\* users 1 and 2 hold 60 each
OppositeBalance == [u \in Users |-> IF u = 3 THEN 0 ELSE 60]

\* the amounts of the two transfers: within the balance, and beyond it
OppositeAmounts == {10, 50, 70}

\* the other one of users 1 and 2
Other(u) == IF u = 1 THEN 2 ELSE 1

InitOpposite ==
    /\ InitIdentity
    /\ balance = OppositeBalance
    /\ status = [u \in Users |-> "active"]
    /\ is_admin = [u \in Users |-> u = 3]
    /\ is_manager = [u \in Users |-> FALSE]
    /\ log = << >>
    /\ pc = [p \in Procs |-> "idle"]
    /\ req = [p \in Procs |-> NoReq]

\* handler 1 serves a transfer from user 1 to user 2 and handler 2 one from
\* user 2 to user 1, each through the confirm page or directly, and each
\* keeps its answer
NextOpposite ==
    \/ \E p \in Procs, a \in OppositeAmounts : transfer(p, p, Other(p), a)
    \/ \E p \in Procs, a \in OppositeAmounts :
           execute_transfer_load(p, p, Other(p), a)
    \/ \E p \in Procs : execute_transfer_commit(p)

\* a handler that has loaded its rows runs on: nothing in execute_transfer
\* waits for another request
SpecOpposite ==
    /\ InitOpposite
    /\ [][NextOpposite]_vars
    /\ \A p \in Procs : WF_vars(execute_transfer_commit(p))

\* ------------------------------------------------------------------ edits

\* what the region dropdown of the edit form can carry: no region (the
\* '-- Select Region --' choice), or the code of a region
Regions == {None, 1}

\* the administrators who edit: user 2, an administrator, and the manager
Editors == {2, 3}

\* users 1 and 2 are active, user 2 is an administrator and user 3 a manager
InitEdit ==
    /\ InitIdentity
    /\ balance = InitBalance
    /\ status = [u \in Users |-> "active"]
    /\ is_admin = [u \in Users |-> u # 1]
    /\ is_manager = [u \in Users |-> u = 3]
    /\ log = << >>
    /\ pc = [p \in Procs |-> "idle"]
    /\ req = [p \in Procs |-> NoReq]

\* the edits of users 1 and 2
NextEdit ==
    \E actor \in Editors, u \in Senders, em \in Emails, st \in Statuses,
       rg \in Regions :
        EditUser(actor, u, em, st, rg)

SpecEdit == InitEdit /\ [][NextEdit]_vars

\* ------------------------------------------------------------------ unapproved

\* the statuses an edit gives that approve nothing
Refusals == {"pending", "deactivated"}

\* user 2 registers, and no administrator approves the account: it is not
\* activated and no edit sets it active.  The manager promotes and demotes
\* it, deactivates it and edits it, and the accounts transact
NextUnapproved ==
    \/ \E u \in NewUsers : register(u, 1)
    \/ \E u \in NewUsers : toggle_admin(3, u)
    \/ \E u \in NewUsers : Deactivate(3, u)
    \/ \E u \in NewUsers, st \in Refusals : EditUser(3, u, "a", st, None)
    \/ \E p \in SiteProcs, u \in Users, key \in Users :
           SitePreview(p, u, key, 50)
    \/ \E p \in SiteProcs, u \in Users, key \in Users :
           SiteExecuteLoad(p, u, key, 50)
    \/ \E p \in SiteProcs : ExecuteCommit(p)
    \/ \E p \in SiteProcs : Return(p)

SpecUnapproved == InitSite /\ [][NextUnapproved]_vars

\* ------------------------------------------------------------------ management

\* the user who asks for the activations, deactivations and edits: user 2,
\* an administrator for as long as the manager does not demote it
ManageActor == 2

\* user 1 is an active regular user, user 2 an administrator and user 3
\* the manager, the two of them active or not
InitManage ==
    /\ InitIdentity
    /\ balance = InitBalance
    /\ \E s2 \in Statuses, s3 \in Statuses :
           status = [u \in Users |-> IF u = 1 THEN "active"
                                    ELSE IF u = 2 THEN s2 ELSE s3]
    /\ is_admin = [u \in Users |-> u # 1]
    /\ is_manager = [u \in Users |-> u = 3]
    /\ log = << >>
    /\ pc = [p \in Procs |-> "idle"]
    /\ req = [p \in Procs |-> NoReq]

\* user 2 asks for the activation, the deactivation and the edit of every
\* account, and the manager asks for the promotion or demotion of every
\* account
NextManage ==
    \/ \E u \in Users : Activate(ManageActor, u)
    \/ \E u \in Users : Deactivate(ManageActor, u)
    \/ \E u \in Users, em \in Emails, st \in Statuses, rg \in Regions :
           EditUser(ManageActor, u, em, st, rg)
    \/ \E u \in Users : toggle_admin(3, u)

SpecManage == InitManage /\ [][NextManage]_vars

\* ------------------------------------------------------------------ claims

\* status active, or an elevated role: who may send and receive
MayTransact(u) ==
    status[u] = "active" \/ is_admin[u] \/ is_manager[u]

\* the step in which handler p takes up a request of kind o and makes its
\* checks; req'[p] holds the request
Starts(p, o) ==
    /\ pc[p] \in {"idle", "confirm"}
    /\ pc'[p] \notin {"idle", pc[p]}
    /\ req'[p].op = o

\* the step in which handler p, having loaded its rows, ends a request of
\* kind o; req[p] holds the request and what it read
Commits(p, o) ==
    /\ pc[p] = "loaded"
    /\ req[p].op = o
    /\ pc'[p] = "done"

\* what the log says an account received, less what it says the account
\* sent, over the first n records
RECURSIVE Net(_, _)
Net(u, n) ==
    IF n = 0 THEN 0
    ELSE Net(u, n - 1)
         + (IF log[n].kind \in {"transfer", "deposit"} /\ log[n].receiver = u
            THEN log[n].amount ELSE 0)
         - (IF log[n].kind = "transfer" /\ log[n].sender = u
            THEN log[n].amount ELSE 0)

\* C1: in every reachable state, whatever transfers and deposits were asked
\* for and however they interleaved, every balance is at least zero.
BalanceNonNegative ==
    \A u \in Users : balance[u] >= 0

\* C1 witness: user 2 has received 50 from user 1 and sent all of it back
BalanceDrained ==
    /\ balance[2] = 0
    /\ balance[1] = 60
    /\ Len(log) = 2
    /\ log[1].kind = "transfer" /\ log[1].sender = 1 /\ log[1].amount = 50
    /\ log[2].kind = "transfer" /\ log[2].sender = 2 /\ log[2].amount = 50

\* C2: when both handlers have answered a transfer of 50 from user 1, who
\* held 60, exactly one has succeeded and the other has failed for
\* insufficient funds, user 1 holds 10 and the log has one record.
ConcurrentTransfersOneSucceeds ==
    (\A p \in Procs : pc[p] = "done" /\ req[p].op = "execute_transfer")
    => /\ Cardinality({p \in Procs : req[p].result = "ok"}) = 1
       /\ Cardinality({p \in Procs : req[p].result = "InsufficientFunds"}) = 1
       /\ balance[1] = 10
       /\ Len(log) = 1

\* C3: an execute_transfer between two distinct accounts that may transact
\* is let through to transfer_money with the balances of that moment, and
\* with an amount a, 0 < a <= the sender's balance, it succeeds: the sender
\* is left with that balance less a, the recipient with its balance plus a,
\* no other balance changes and the log gains the one record of the transfer.
TransferMovesAmount ==
    [][\A p \in Procs :
         /\ ( /\ Starts(p, "execute_transfer")
              /\ req'[p].rcpt # None
              /\ MayTransact(req'[p].user)
              /\ MayTransact(req'[p].rcpt) )
            => /\ pc'[p] = "loaded"
               /\ req'[p].sBal = balance[req'[p].user]
               /\ req'[p].rBal = balance[req'[p].rcpt]
         /\ ( /\ Commits(p, "execute_transfer")
              /\ req[p].user # req[p].rcpt
              /\ 0 < req[p].amount
              /\ req[p].amount <= req[p].sBal )
            => /\ req'[p].result = "ok"
               /\ balance' = [balance EXCEPT
                      ![req[p].user] = req[p].sBal - req[p].amount,
                      ![req[p].rcpt] = req[p].rBal + req[p].amount]
               /\ log' = Append(log, [kind |-> "transfer",
                                      sender |-> req[p].user,
                                      receiver |-> req[p].rcpt,
                                      amount |-> req[p].amount])
      ]_vars

\* C3 witness: a transfer of 50 from user 1 to user 2 has just succeeded
TransferDone ==
    \E p \in Procs :
        /\ pc[p] = "done"
        /\ req[p].op = "execute_transfer" /\ req[p].result = "ok"
        /\ req[p].user = 1 /\ req[p].rcpt = 2 /\ req[p].amount = 50
        /\ balance[1] = 10 /\ balance[2] = 50
        /\ Len(log) = 1

\* C4: a transfer of more than the sender holds fails for insufficient
\* funds, at the preview (of a sender who may transact, to another account)
\* and at the execution (once it has come to transfer_money), and neither
\* step changes a balance or adds a record.
OverdrawFails ==
    [][\A p \in Procs :
         /\ ( /\ Starts(p, "transfer")
              /\ MayTransact(req'[p].user)
              /\ req'[p].rcpt # req'[p].user
              /\ balance[req'[p].user] < req'[p].amount )
            => /\ pc'[p] = "done"
               /\ req'[p].result = "InsufficientFunds"
               /\ UNCHANGED <<balance, log>>
         /\ ( /\ Commits(p, "execute_transfer")
              /\ req[p].sBal < req[p].amount )
            => /\ req'[p].result = "InsufficientFunds"
               /\ UNCHANGED <<balance, log>>
      ]_vars

\* C4 witness: an execution of a transfer of 50 by a sender who held 10 has
\* failed for insufficient funds
OverdrawRefused ==
    \E p \in Procs :
        /\ pc[p] = "done"
        /\ req[p].op = "execute_transfer"
        /\ req[p].result = "InsufficientFunds"
        /\ req[p].user # req[p].rcpt
        /\ req[p].amount = 50
        /\ balance[req[p].user] = 10

\* C5: the commit of a transfer lowers the sender's balance exactly when it
\* raises the recipient's.
DebitAndCreditTogether ==
    [][\A p \in Procs :
         Commits(p, "execute_transfer")
         => (balance'[req[p].user] < balance[req[p].user]
             <=> balance'[req[p].rcpt] > balance[req[p].rcpt])
      ]_vars

\* C6: a transfer to oneself is rejected whatever the amount: the preview
\* shows no confirm page, and the execution, posted directly or not, ends
\* without success; no step of either changes a balance or adds a record.
SelfTransferRejected ==
    [][\A p \in Procs :
         /\ (Starts(p, "transfer") /\ req'[p].rcpt = req'[p].user)
            => /\ pc'[p] = "done"
               /\ MayTransact(req'[p].user)
                  => req'[p].result = "SelfTransfer"
               /\ UNCHANGED <<balance, log>>
         /\ (Starts(p, "execute_transfer") /\ req'[p].rcpt = req'[p].user)
            => UNCHANGED <<balance, log>>
         /\ (Commits(p, "execute_transfer") /\ req[p].rcpt = req[p].user)
            => /\ req'[p].result # "ok"
               /\ UNCHANGED <<balance, log>>
      ]_vars

\* C6 witness: user 1, holding 60, posted a transfer of 50 to itself
\* straight to the execute step, and it was refused
SelfTransferRefused ==
    \E p \in Procs :
        /\ pc[p] = "done"
        /\ req[p].op = "execute_transfer"
        /\ ~req[p].previewed
        /\ req[p].user = 1 /\ req[p].rcpt = 1 /\ req[p].amount = 50
        /\ req[p].result = "InsufficientFunds"
        /\ balance[1] = 60

\* C7: a deposit by an administrator to an account that may transact is let
\* through to deposit with the balance of that moment, and with an amount
\* a > 0 it succeeds: the target is left with that balance plus a, no other
\* balance changes, and the log gains one record of kind deposit with no
\* sender, the target as receiver and the amount a.
DepositAddsAmount ==
    [][\A p \in Procs :
         /\ ( /\ Starts(p, "admin_deposit")
              /\ is_admin[req'[p].user]
              /\ req'[p].rcpt # None
              /\ MayTransact(req'[p].rcpt) )
            => /\ pc'[p] = "loaded"
               /\ req'[p].rBal = balance[req'[p].rcpt]
         /\ (Commits(p, "admin_deposit") /\ req[p].amount > 0)
            => /\ req'[p].result = "ok"
               /\ balance' = [balance EXCEPT
                      ![req[p].rcpt] = req[p].rBal + req[p].amount]
               /\ log' = Append(log, [kind |-> "deposit", sender |-> None,
                                      receiver |-> req[p].rcpt,
                                      amount |-> req[p].amount])
      ]_vars

\* C7 witness: a deposit of 10 to user 1, who held 60, has just succeeded
DepositDone ==
    \E p \in Procs :
        /\ pc[p] = "done"
        /\ req[p].op = "admin_deposit" /\ req[p].result = "ok"
        /\ req[p].rcpt = 1 /\ req[p].amount = 10
        /\ balance[1] = 70
        /\ log = <<[kind |-> "deposit", sender |-> None, receiver |-> 1,
                    amount |-> 10]>>

\* C8: a deposit by an administrator to an account that is neither active
\* nor administrator nor manager fails as inactive account and changes no
\* balance and adds no record.
DepositToInactiveFails ==
    [][\A p \in Procs :
         ( /\ Starts(p, "admin_deposit")
           /\ is_admin[req'[p].user]
           /\ req'[p].rcpt # None
           /\ status[req'[p].rcpt] # "active"
           /\ ~is_admin[req'[p].rcpt]
           /\ ~is_manager[req'[p].rcpt] )
         => /\ pc'[p] = "done"
            /\ req'[p].result = "InactiveAccount"
            /\ UNCHANGED <<balance, log>>
      ]_vars

\* C8 witness: a deposit to user 2, deactivated, was refused
DepositToInactiveRefused ==
    \E p \in Procs :
        /\ pc[p] = "done"
        /\ req[p].op = "admin_deposit"
        /\ req[p].user = 3 /\ req[p].rcpt = 2
        /\ req[p].amount = 10
        /\ req[p].result = "InactiveAccount"
        /\ status[2] = "deactivated"

\* C9: an execute_transfer whose sender, or whose recipient, may not
\* transact when the handler checks them fails as inactive account and
\* changes no balance and adds no record, whether or not the preview of the
\* same transfer had passed.
TransferOfInactiveFails ==
    [][\A p \in Procs :
         ( /\ Starts(p, "execute_transfer")
           /\ \/ ~MayTransact(req'[p].user)
              \/ req'[p].rcpt # None /\ ~MayTransact(req'[p].rcpt) )
         => /\ pc'[p] = "done"
            /\ req'[p].result = "InactiveAccount"
            /\ UNCHANGED <<balance, log>>
      ]_vars

\* C9 witness: the preview of a transfer from user 1 to user 2 passed, user 2
\* was deactivated, and the execution posted from the confirm page was
\* refused
TransferAfterDeactivationRefused ==
    \E p \in Procs :
        /\ pc[p] = "done"
        /\ req[p].op = "execute_transfer"
        /\ req[p].previewed
        /\ req[p].user = 1 /\ req[p].rcpt = 2 /\ req[p].amount = 50
        /\ req[p].result = "InactiveAccount"
        /\ status[2] = "deactivated"
        /\ balance[1] = 60

\* C10: in every committed state each balance is the initial balance plus
\* the amounts of the transfer and deposit records that name the account as
\* receiver, less the amounts of the transfer records that name it as sender.
LedgerReconciles ==
    \A u \in Users : balance[u] = InitBalance[u] + Net(u, Len(log))

\* C11: a transfer succeeds only if, at the step that writes the balances,
\* the sender's balance is at least the amount.
TransferOnlyWithFunds ==
    [][\A p \in Procs :
         (Commits(p, "execute_transfer") /\ req'[p].result = "ok")
         => balance[req[p].user] >= req[p].amount
      ]_vars

\* C12: while every record of the log is a credit to one account, made by a
\* deposit or by a transfer from another account, the balance of that account
\* is its initial balance plus the amounts of all these records.
CreditsNotLost ==
    \A u \in Users :
        (\A i \in 1..Len(log) :
            /\ log[i].kind \in {"transfer", "deposit"}
            /\ log[i].receiver = u
            /\ log[i].sender # u)
        => balance[u] = InitBalance[u] + Net(u, Len(log))

FailedAppendAborts ==
    [][\A p \in Procs :
         ( /\ \/ Commits(p, "execute_transfer")
              \/ Commits(p, "admin_deposit")
           /\ req'[p].result = "ServerError" )
         => UNCHANGED <<balance, log>>
      ]_vars

\* C14 witness: a transfer of 50 from user 1, who holds 60, failed on
\* writing its record, and every balance is the initial one
TransferAborted ==
    \E p \in Procs :
        /\ pc[p] = "done"
        /\ req[p].op = "execute_transfer"
        /\ req[p].user = 1 /\ req[p].amount = 50
        /\ req[p].result = "ServerError"
        /\ balance = InitBalance
        /\ log = << >>

\* C15: the history an administrator is shown of account A holds every row
\* of the table that names A as sender or as receiver, each exactly once,
\* and no other row, so with N such rows it has N entries; and no entry
\* comes before one with a later timestamp.
HistoryExactAndNewestFirst ==
    \A p \in Procs :
        ( /\ pc[p] = "done"
          /\ req[p].op = "admin_user_transactions"
          /\ req[p].result = "ok" )
        => LET h == req[p].transactions
               A == req[p].rcpt
               mine == {i \in 1..Len(log) :
                           log[i].sender = A \/ log[i].receiver = A}
           IN  /\ Len(h) = Cardinality(mine)
               /\ \A i \in mine :
                      Cardinality({k \in 1..Len(h) : h[k] = i}) = 1
               /\ \A k \in 1..Len(h) : h[k] \in mine
               /\ \A j, k \in 1..Len(h) :
                      j < k => log[h[j]].timestamp >= log[h[k]].timestamp

\* C15 witness: of three rows, the first and the last involve user 1 and the
\* last is the newer; the history of user 1 lists the last, then the first
HistoryListed ==
    \E p \in Procs :
        /\ pc[p] = "done"
        /\ req[p].op = "admin_user_transactions"
        /\ req[p].result = "ok"
        /\ req[p].rcpt = 1
        /\ Len(log) = 3
        /\ log[1].sender = 1 /\ log[1].timestamp = 1
        /\ log[2].sender = None /\ log[2].receiver = 2
        /\ log[3].receiver = 1 /\ log[3].timestamp = 2
        /\ req[p].transactions = <<3, 1>>

\* C16: no step removes or alters a row of the log: after every step of a
\* transfer, a deposit, an edit, an activation, a deactivation, a change of
\* role or any other handler, each row the log held is still there, at its
\* place and as it was.
LogAppendOnly ==
    [][/\ Len(log') >= Len(log)
       /\ \A i \in 1..Len(log) : log'[i] = log[i]
      ]_vars

\* C16 witness: user 2 got an account and 50 from user 1; it was then
\* edited, promoted and deactivated, and the row of the transfer is the
\* first of the log, as it was written
RecordKept ==
    /\ Len(log) = 2
    /\ log[1] = [kind |-> "transfer", sender |-> 1, receiver |-> 2,
                 amount |-> 50]
    /\ log[2].kind = "user_edit" /\ log[2].receiver = 2
    /\ email[2] = "a"
    /\ is_admin[2]
    /\ status[2] = "deactivated"

\* C17: a step that changes any balance is the commit of a successful
\* transfer or of a successful deposit; registration, account creation,
\* activation, deactivation, the edit of a user, the change of role, the
\* creation and the reset of a PIN, the reset of a password, login and
\* logout change none.
OnlyTransferAndDepositChangeBalance ==
    [][balance' # balance
       => \E p \in Procs :
              /\ \/ Commits(p, "execute_transfer")
                 \/ Commits(p, "admin_deposit")
              /\ req'[p].result = "ok"
      ]_vars

\* C17 witness: user 2 got an account and was promoted, edited and
\* deactivated, user 1 logged in, set a PIN, reset it, logged out and reset
\* the password, and every balance is the initial one
AccountsManagedBalancesKept ==
    /\ 2 \in registered
    /\ is_admin[2]
    /\ email[2] = "b"
    /\ status[2] = "deactivated"
    /\ Len(log) = 1 /\ log[1].kind = "user_edit"
    /\ pin_hash[1] = 2
    /\ password_hash[1] = 2
    /\ session = [user_id |-> None, pin_verified |-> TRUE]
    /\ balance = InitBalance

\* an administrator or a manager whose status is pending or deactivated
InactivePrivileged(u) ==
    /\ u # None
    /\ status[u] # "active"
    /\ is_admin[u] \/ is_manager[u]

\* C18: a transfer, at the preview and at the execution, whose sender or
\* whose recipient is an administrator or a manager with a status other than
\* active, the other party being active or privileged too, is not rejected
\* as inactive account, and the execution goes on to transfer_money; nor is a
\* deposit by an administrator to such an account, which goes on to deposit.
PrivilegedMayTransact ==
    [][\A p \in Procs :
         /\ ( /\ \/ Starts(p, "transfer")
                 \/ Starts(p, "execute_transfer")
              /\ \/ InactivePrivileged(req'[p].user)
                 \/ InactivePrivileged(req'[p].rcpt)
              /\ MayTransact(req'[p].user)
              /\ req'[p].rcpt # None => MayTransact(req'[p].rcpt) )
            => /\ req'[p].result # "InactiveAccount"
               /\ (req'[p].op = "execute_transfer" /\ req'[p].rcpt # None)
                  => pc'[p] = "loaded"
         /\ ( /\ Starts(p, "admin_deposit")
              /\ is_admin[req'[p].user]
              /\ InactivePrivileged(req'[p].rcpt) )
            => /\ req'[p].result # "InactiveAccount"
               /\ pc'[p] = "loaded"
      ]_vars

\* C18 witness: user 2, an administrator whose account is deactivated, has
\* sent 50 to user 1
DeactivatedAdminSent ==
    \E p \in Procs :
        /\ pc[p] = "done"
        /\ req[p].op = "execute_transfer" /\ req[p].result = "ok"
        /\ req[p].user = 2 /\ req[p].rcpt = 1 /\ req[p].amount = 50
        /\ is_admin[2]
        /\ status[2] = "deactivated"
        /\ balance[2] = 0

\* C19: a transfer of exactly what the sender holds, to another account that
\* may receive, passes the preview, which shows the confirm page, and the
\* execution, which succeeds and leaves the sender with exactly zero.
ExactBalancePermitted ==
    [][\A p \in Procs :
         /\ ( /\ Starts(p, "transfer")
              /\ req'[p].amount > 0
              /\ req'[p].amount = balance[req'[p].user]
              /\ MayTransact(req'[p].user)
              /\ req'[p].rcpt # None
              /\ req'[p].rcpt # req'[p].user
              /\ MayTransact(req'[p].rcpt) )
            => pc'[p] = "confirm"
         /\ ( /\ Commits(p, "execute_transfer")
              /\ req[p].amount > 0
              /\ req[p].amount = req[p].sBal
              /\ req[p].rcpt # req[p].user )
            => /\ req'[p].result = "ok"
               /\ balance'[req[p].user] = 0
      ]_vars

\* C19 witness: user 2, who held exactly 50, previewed and executed a
\* transfer of 50 to user 1 and is left with zero
ExactBalanceSent ==
    \E p \in Procs :
        /\ pc[p] = "done"
        /\ req[p].op = "execute_transfer" /\ req[p].result = "ok"
        /\ req[p].previewed
        /\ req[p].user = 2 /\ req[p].rcpt = 1 /\ req[p].amount = 50
        /\ Len(log) = 2
        /\ log[1] = [kind |-> "transfer", sender |-> 1, receiver |-> 2,
                     amount |-> 50]
        /\ balance[2] = 0

\* C20: once the two handlers are both at work on transfers between users 1
\* and 2 in opposite directions, both come to an end, each with its transfer
\* committed or refused.
OppositeTransfersComplete ==
    (\A p \in Procs : pc[p] = "loaded")
    ~> (\A p \in Procs :
           /\ pc[p] = "done"
           /\ req[p].result \in {"ok", "InsufficientFunds"})

\* C20 witness: the two transfers of 50 were loaded together and both have
\* committed
OppositeTransfersDone ==
    /\ \A p \in Procs :
           /\ pc[p] = "done"
           /\ req[p].op = "execute_transfer" /\ req[p].result = "ok"
           /\ req[p].user = p /\ req[p].rcpt = Other(p)
           /\ req[p].amount = 50
    /\ Len(log) = 2
    /\ balance[1] # 60

\* C21: a transfer preview, a transfer execution or a deposit asked for by
\* a user who may ask for it, and naming a recipient or target that no
\* account answers to, ends at once as AccountNotFound, with every balance
\* and the log as they were.
UnresolvedIsAccountNotFound ==
    [][\A p \in Procs :
         ( /\ \/ /\ \/ Starts(p, "transfer")
                     \/ Starts(p, "execute_transfer")
                  /\ MayTransact(req'[p].user)
               \/ /\ Starts(p, "admin_deposit")
                  /\ is_admin[req'[p].user]
           /\ req'[p].rcpt = None )
         => /\ pc'[p] = "done"
            /\ req'[p].result = "AccountNotFound"
            /\ balance' = balance
            /\ log' = log
      ]_vars

\* C22: an edit that changes the email, the status or the region of the
\* edited user adds exactly one record, of kind user_edit, from the acting
\* administrator to the edited user and with no amount; an edit that changes
\* none of them adds no record; and no edit changes a balance.
UserEditRecorded ==
    [][\A actor \in Users, u \in Users, em \in Emails, st \in Statuses,
          rg \in Regions :
         edit_user(actor, u, em, st, rg)
         => /\ balance' = balance
            /\ IF \/ email'[u] # email[u]
                  \/ status'[u] # status[u]
                  \/ region_code'[u] # region_code[u]
               THEN log' = Append(log, [kind |-> "user_edit",
                                        sender |-> actor, receiver |-> u,
                                        amount |-> None])
               ELSE log' = log
      ]_vars

\* the amounts of the deposit records among the first n records of the log
RECURSIVE Deposited(_)
Deposited(n) ==
    IF n = 0 THEN 0
    ELSE Deposited(n - 1)
         + (IF log[n].kind = "deposit" THEN log[n].amount ELSE 0)

\* the sum of the balances of the accounts in S
RECURSIVE Total(_, _)
Total(b, S) ==
    IF S = {} THEN 0
    ELSE LET u == CHOOSE x \in S : TRUE
         IN  b[u] + Total(b, S \ {u})

\* C23: in every reachable state the balances of all the accounts add up to
\* what they added up to at the start plus the amounts of the deposits that
\* were made; the transfers, made or refused, add nothing and take nothing.
MoneyConserved ==
    Total(balance, Users) = Total(InitBalance, Users) + Deposited(Len(log))

\* C25: as long as no administrator has approved the account user 2
\* registered (no activate_user of it, no edit_user setting it active), the
\* account is not at once active and without an elevated role, whatever
\* promotions and demotions it went through.
UnapprovedNeverActive ==
    \A u \in NewUsers :
        (u \in registered /\ ~is_admin[u] /\ ~is_manager[u])
        => status[u] # "active"

\* a user_edit record naming u as the edited user is added to the log
EditRecorded(u) ==
    /\ Len(log') = Len(log) + 1
    /\ log'[Len(log')].kind = "user_edit"
    /\ log'[Len(log')].receiver = u

\* C26: a step that is no promotion or demotion and that changes the
\* status, the email or the region of an account, or adds an audit record of
\* an edit of it, is taken only while the acting administrator, user 2, is
\* an administrator who may manage that account; and no step at all changes
\* the roles or the status of a manager's account.
ManagedOnlyWhenAllowed ==
    [][\A u \in Users :
         /\ ( /\ is_admin' = is_admin
              /\ \/ status'[u] # status[u]
                 \/ email'[u] # email[u]
                 \/ region_code'[u] # region_code[u]
                 \/ EditRecorded(u) )
            => /\ is_admin[ManageActor]
               /\ can_manage_user(ManageActor, u)
         /\ is_manager[u]
            => /\ is_admin'[u] = is_admin[u]
               /\ is_manager'[u] = is_manager[u]
               /\ status'[u] = status[u]
      ]_vars

\* C26 witness: user 2 edited and deactivated user 1, the manager then made
\* user 1 an administrator, whom user 2 may not manage, and the account of
\* user 1 has stayed as the promotion left it
ManagedThenPromoted ==
    /\ is_admin[1] /\ is_admin[ManageActor]
    /\ ~can_manage_user(ManageActor, 1)
    /\ status[1] = "active"
    /\ Len(log) = 2
    /\ log[1] = [kind |-> "user_edit", sender |-> ManageActor, receiver |-> 1,
                 amount |-> None]
    /\ log[2] = log[1]

====
